---- MODULE Spec2Model ----
(***************************************************************************)
(* Poisson INAR(1) model of RIMA_POISSON.py: a model instance binds an     *)
(* observed count series (endog) and a regressor matrix (exog), evaluates  *)
(* the per-observation negative log-likelihood (nloglikeobs) and is fitted *)
(* by an external maximum-likelihood optimizer (fit).                      *)
(*                                                                         *)
(* Floating-point values are modelled by their class: a probability is     *)
(* "zero" (representable zero) or "pos" (positive and finite); the         *)
(* thresholds at which IEEE double exp() underflows, overflows or          *)
(* saturates are kept as integers.  Parameter values are integers, so the  *)
(* linear predictor X.dot(beta) is computed exactly.                       *)
(***************************************************************************)
EXTENDS Integers, Sequences, FiniteSets, TLC

\* ---------------------------------------------------------------- bounds
MaxT == 3
MaxK == 2
MaxY == 1
MaxFits == 2
MaxFitT == 2

\* ------------------------------------------------------------- constants
\* fit(self, start_params=None, maxiter=1000, maxfun=5000, **kwds)
DefaultMaxIter == 1000
DefaultMaxFun == 5000
\* math.exp(x) raises OverflowError for x >= 710 (double precision)
ExpOverflow == 710
\* exp(x) is the representable zero for x <= -746 (double precision)
ExpUnderflow == -746
\* 1.0/(1.0+math.exp(-gamma)) is exactly 1.0 for gamma >= 37
RhoSaturate == 37

\* ---------------------------------------------------------------- inputs
YVals == -1..MaxY
XVals == {0, 1}
BetaVals == {-1000, 1}
GammaVals == {-1000, 1, 40}
\* the caps a caller passes: the defaults, or its own
CapVals == {<<DefaultMaxIter, DefaultMaxFun>>, <<50, 60>>}
StartKinds == {"list", "ndarray"}
ColNames == <<"x1", "x2", "x3", "x4">>

SeriesSet == UNION {[1..n -> YVals] : n \in 1..MaxT}
\* the series of the models that are fitted
FitSeriesSet == UNION {[1..n -> {0, 1}] : n \in 1..MaxFitT}
\* regressor matrices: an intercept column of ones, the other columns constant
MatrixSet ==
  {[t \in 1..r |-> [c \in 1..k |-> IF c = 1 THEN 1 ELSE x]] :
      r \in 1..MaxT, k \in 1..MaxK, x \in XVals}

\* parameter vectors of a model with k regressor columns: k betas, then gamma
\* (the betas of one vector are equal)
ParamVecs(k) ==
  {[i \in 1..(k + 1) |-> IF i <= k THEN b ELSE g] : b \in BetaVals, g \in GammaVals}

None == [kind |-> "None", v |-> <<>>]
StartArgs(k) == {None} \cup {[kind |-> sk, v |-> p] : sk \in StartKinds, p \in ParamVecs(k)}

NoArgs == [start_params |-> [kind |-> "absent", v |-> <<>>]]
NoCall == [objective |-> "none"]
NoEval == [raised |-> "unset"]
NoRet == [returned |-> FALSE]

VARIABLES pc, endog, exog, exog_names, endog0, exog0, fitCount, call, handed,
          optCalls, probed, optret, ret, err, evalRec

vars == <<pc, endog, exog, exog_names, endog0, exog0, fitCount, call, handed,
          optCalls, probed, optret, ret, err, evalRec>>

\* ------------------------------------------------------------ likelihood
Min(a, b) == IF a <= b THEN a ELSE b

RECURSIVE DotUpTo(_, _, _)
DotUpTo(row, beta, n) ==
  IF n = 0 THEN 0 ELSE DotUpTo(row, beta, n - 1) + row[n] * beta[n]

\* s[i] with Python's indexing: from 0, a negative index counts from the end
At(s, i) == IF i >= 0 THEN s[i + 1] ELSE s[Len(s) + i + 1]

\* X.dot(beta) for one row
Dot(row, beta) == DotUpTo(row, beta, Len(row))

\* gamma = params[-1]
Gamma(params) == params[Len(params)]

\* beta = params[:-1]
Beta(params) == SubSeq(params, 1, Len(params) - 1)

\* rho = 1.0/(1.0+math.exp(-gamma))
Rho(gamma) ==
  IF -gamma >= ExpOverflow THEN "OverflowError"
  ELSE IF gamma >= RhoSaturate THEN "one"
  ELSE "unit"

\* mu[t] = np.exp(X.dot(beta))[t]; the linear predictors of the model stay
\* far below the overflow threshold
Mu(X, beta, t) == IF Dot(At(X, t), beta) <= ExpUnderflow THEN "zero" ELSE "pos"

\* poisson.pmf(k, mu), k >= 0: at rate zero all mass is on k = 0; at the
\* positive rates of the model (e^d, d small) every small count has positive
\* mass
PoissonPmf(k, mu) ==
  IF mu = "zero" THEN (IF k = 0 THEN "pos" ELSE "zero") ELSE "pos"

\* binom.pmf(j, n, rho), 0 <= j <= n: at rho = 1.0 all mass is on j = n
BinomPmf(j, n, rho) ==
  IF rho = "one" THEN (IF j = n THEN "pos" ELSE "zero") ELSE "pos"

Times(a, b) == IF a = "zero" \/ b = "zero" THEN "zero" ELSE "pos"

\* range(n), as the sequence it yields: empty for n <= 0
Range(n) == IF n <= 0 THEN <<>> ELSE [i \in 1..n |-> i - 1]

\* range(int(min(y[t], y[t-1]))): the last survivor count is left out
JRangeShort(yt, yprev) == Range(Min(yt, yprev))

\* range(int(min(y[t], y[t-1])+1)), as the sequence of j it yields
JRange(yt, yprev) == Range(Min(yt, yprev) + 1)

\* the products accumulated into prob_y_t for one t
Products(y, X, beta, rho, t) ==
  LET js == JRange(At(y, t), At(y, t - 1))
  IN [i \in 1..Len(js) |->
        [k |-> At(y, t) - js[i], mu |-> t, j |-> js[i], n |-> At(y, t - 1),
         p |-> Times(PoissonPmf(At(y, t) - js[i], Mu(X, beta, t)),
                     BinomPmf(js[i], At(y, t - 1), rho))]]

\* prob_y_t = 0; prob_y_t += ...
SumProb(prods) ==
  IF \E i \in 1..Len(prods) : prods[i].p = "pos" THEN "pos" ELSE "zero"

\* range(len(y)-1,-1,-1): the loop also visits index 0
LoopIndicesFromZero(T) == [i \in 1..T |-> T - i]

\* range(1,len(y)): the loop runs forward in time
LoopIndicesForward(T) == [i \in 1..(T - 1) |-> i]

\* range(len(y)-1,0,-1), as the sequence of t it yields
LoopIndices(T) == [i \in 1..(T - 1) |-> T - i]

\* one pass of the loop body for index t, up to the argument of math.log
Term(y, X, beta, rho, t) ==
  LET prods == Products(y, X, beta, rho, t)
  IN [t |-> t, cur |-> At(y, t), prev |-> At(y, t - 1), prods |-> prods,
      prob |-> SumProb(prods)]

\* -math.log(prob_y_t): math.log raises ValueError at zero
NegLog(prob) == IF prob = "zero" THEN "ValueError" ELSE "finite"

\* the loop of nloglikeobs: the returned array -ll (each entry with the index
\* t it was computed for) or the exception raised, and the loop passes made
Likelihood(params, y, X) ==
  LET rho == Rho(Gamma(params))
      idx == LoopIndices(Len(y))
      all == [i \in 1..Len(idx) |-> Term(y, X, Beta(params), rho, idx[i])]
      bad == {i \in 1..Len(idx) : NegLog(all[i].prob) = "ValueError"}
      stop == IF bad = {} THEN Len(idx)
              ELSE CHOOSE i \in bad : \A m \in bad : i <= m
  IN IF rho = "OverflowError"
       THEN [raised |-> "OverflowError", ll |-> <<>>, passes |-> <<>>]
     ELSE IF bad # {}
       THEN [raised |-> "ValueError", ll |-> <<>>, passes |-> SubSeq(all, 1, stop)]
     ELSE [raised |-> "none",
           ll |-> [i \in 1..Len(idx) |->
                     [t |-> all[i].t, cur |-> all[i].cur, prev |-> all[i].prev,
                      val |-> NegLog(all[i].prob)]],
           passes |-> all]

\* y = self.endog; y.reverse(): the bound series is reversed in place
\* instead of being copied and read backwards
nloglikeobsInPlace(params, y, X) ==
  [out |-> Likelihood(params, y, X), params |-> params,
   endog |-> [i \in 1..Len(y) |-> y[Len(y) + 1 - i]], exog |-> X]

\* nloglikeobs(self, params): its outcome, and the objects it was given as
\* they are when it ends (it reads params, and self.endog through a copy)
nloglikeobs(params, y, X) ==
  [out |-> Likelihood(params, y, X), params |-> params, endog |-> y, exog |-> X]

\* ----------------------------------------------------------- construction
\* PoissonINAR.__init__: hands endog and exog to the base initializer, which
\* rejects differing row counts (ValueError) and stores the data; the values
\* of endog are not inspected
Construct(y, X) ==
  /\ pc = "NoModel"
  /\ IF Len(y) # Len(X)
       THEN /\ err' = "ValueError"
            /\ UNCHANGED <<pc, endog, exog, exog_names, endog0, exog0>>
       ELSE /\ pc' = "Unfit"
            /\ endog' = y
            /\ exog' = X
            /\ endog0' = y
            /\ exog0' = X
            /\ exog_names' = SubSeq(ColNames, 1, Len(X[1]))
            /\ err' = "none"
  /\ UNCHANGED <<fitCount, call, handed, optCalls, probed, optret, ret, evalRec>>

\* --------------------------------------------------------------------- fit
\* np.ones(self.exog.shape[1]): the entry of the thinning logit is left out
DefaultStartNoGamma(X) == [i \in 1..Len(X[1]) |-> 1]

\* np.append(np.ones(self.exog.shape[1]), 1.0)
DefaultStart(X) == [i \in 1..(Len(X[1]) + 1) |-> 1]

\* start_params == None, as the truth value the if statement needs
EqNone(sp) ==
  CASE sp.kind = "None" -> "True"
    [] sp.kind = "list" -> "False"
    [] sp.kind = "ndarray" -> IF Len(sp.v) > 1 THEN "ValueError" ELSE "False"

\* the arguments of super(PoissonINAR, self).fit(...)
SuperFitArgs(sp, X, maxiter, maxfun) ==
  [objective |-> "nloglikeobs",
   start_params |-> IF EqNone(sp) = "True" THEN DefaultStart(X) ELSE sp.v,
   maxiter |-> maxiter, maxfun |-> maxfun]

\* the names after self.exog_names.append('gamma')
AppendGamma(names) == Append(names, "gamma")

\* fit, from its entry to the call of the external optimizer
FitCall(sp, maxiter, maxfun) ==
  /\ pc \in {"Unfit", "Fitted", "Failed", "Raised"}
  /\ fitCount < MaxFits
  /\ fitCount' = fitCount + 1
  /\ exog_names' = AppendGamma(exog_names)
  /\ call' = [start_params |-> sp, maxiter |-> maxiter, maxfun |-> maxfun]
  /\ optret' = NoRet
  /\ ret' = NoRet
  /\ probed' = FALSE
  /\ IF EqNone(sp) = "ValueError"
       THEN /\ pc' = "Raised"
            /\ err' = "ValueError"
            /\ handed' = NoCall
            /\ optCalls' = 0
       ELSE /\ pc' = "Fitting"
            /\ err' = "none"
            /\ handed' = SuperFitArgs(sp, exog, maxiter, maxfun)
            /\ optCalls' = 1
  /\ UNCHANGED <<endog, exog, endog0, exog0, evalRec>>

\* the optimizer evaluates the objective: first at the initial point, then
\* at any candidate; an exception of the objective leaves fit
OptimizerEval(p) ==
  /\ pc = "Fitting"
  /\ ~probed => p = handed.start_params
  /\ \E r \in {nloglikeobs(p, endog, exog)} :
        /\ evalRec' = [arg |-> p, raised |-> r.out.raised, ll |-> r.out.ll,
                       passes |-> r.out.passes, params |-> r.params]
        /\ endog' = r.endog
        /\ exog' = r.exog
        /\ IF r.out.raised # "none"
             THEN pc' = "Raised" /\ err' = r.out.raised /\ UNCHANGED probed
             ELSE probed' = TRUE /\ UNCHANGED <<pc, err>>
  /\ UNCHANGED <<exog_names, endog0, exog0, fitCount, call, handed, optCalls,
                 optret, ret>>

\* return super(PoissonINAR, self).fit(...)
FitReturn(r) == r

\* the optimizer ends, converged or not, and fit returns its result; the
\* arguments of the finished calls are gone
OptimizerReturn(conv) ==
  /\ pc = "Fitting"
  /\ probed
  /\ optret' = [returned |-> TRUE, converged |-> conv, params |-> evalRec.arg]
  /\ ret' = FitReturn(optret')
  /\ pc' = IF conv THEN "Fitted" ELSE "Failed"
  /\ call' = NoArgs
  /\ handed' = NoCall
  /\ UNCHANGED <<endog, exog, exog_names, endog0, exog0, fitCount,
                 optCalls, probed, err, evalRec>>

\* a caller evaluates the likelihood of a model outside fit
Evaluate(p) ==
  /\ pc \in {"Unfit", "Fitted", "Failed", "Raised"}
  /\ \E r \in {nloglikeobs(p, endog, exog)} :
        /\ evalRec' = [arg |-> p, raised |-> r.out.raised, ll |-> r.out.ll,
                       passes |-> r.out.passes, params |-> r.params]
        /\ endog' = r.endog
        /\ exog' = r.exog
  /\ UNCHANGED <<pc, exog_names, endog0, exog0, fitCount, call, handed, optCalls,
                 probed, optret, ret, err>>

Init ==
  /\ pc = "NoModel"
  /\ endog = <<>>
  /\ exog = <<>>
  /\ exog_names = <<>>
  /\ endog0 = <<>>
  /\ exog0 = <<>>
  /\ fitCount = 0
  /\ call = NoArgs
  /\ handed = NoCall
  /\ optCalls = 0
  /\ probed = FALSE
  /\ optret = NoRet
  /\ ret = NoRet
  /\ err = "none"
  /\ evalRec = NoEval

\* self.exog.shape[1]: the number of regressor columns of the bound model
K == IF exog = <<>> THEN 0 ELSE Len(exog[1])

\* construction and likelihood evaluation alone
NextNll ==
  \/ \E y \in SeriesSet, X \in MatrixSet : Construct(y, X)
  \/ \E p \in ParamVecs(K) : Evaluate(p)

SpecNll == Init /\ [][NextNll]_vars

Next ==
  \/ \E y \in FitSeriesSet, X \in MatrixSet : Construct(y, X)
  \/ \E sp \in StartArgs(K), caps \in CapVals : FitCall(sp, caps[1], caps[2])
  \/ \E p \in ParamVecs(K) : OptimizerEval(p)
  \/ \E conv \in BOOLEAN : OptimizerReturn(conv)
  \/ \E p \in ParamVecs(K) : Evaluate(p)

Spec == Init /\ [][Next]_vars

\* ------------------------------------------------------------ properties
T == Len(endog)
Evaluated == evalRec.raised # "unset"
Returned == evalRec.raised = "none"
OptimizerCalled == handed.objective # "none"
FitArgsKept == call.start_params.kind # "absent"
Ones(n) == [i \in 1..n |-> 1]
GammaCount == Cardinality({i \in 1..Len(exog_names) : exog_names[i] = "gamma"})

\* C1: once fit has been called on a model with K regressor columns, however
\* often, ParameterNames has exactly K+1 entries and holds the thinning-logit
\* label exactly once.
C1_NamesRegisteredOnce ==
  fitCount >= 1 => Len(exog_names) = K + 1 /\ GammaCount = 1

\* C2: an evaluation of negativeLogLikelihood never raises, and every term it
\* returns is finite, whatever the parameter vector and the bound series of
\* non-negative counts.
C2_NeverRaisesAlwaysFinite ==
  (Evaluated /\ \A i \in 1..Len(endog) : endog[i] >= 0) =>
    /\ evalRec.raised = "none"
    /\ \A i \in 1..Len(evalRec.ll) : evalRec.ll[i].val = "finite"

\* C3: every model that exists has a series as long as its regressor matrix
\* has rows and only non-negative observed values.
C3_BoundDataValid ==
  pc # "NoModel" =>
    /\ Len(endog) = Len(exog)
    /\ \A i \in 1..Len(endog) : endog[i] >= 0

\* C4: for a bound series of length T >= 2, the sequence negativeLogLikelihood
\* returns has exactly T-1 terms, one for each t in 1..T-1 and none for index
\* 0, the term of t conditioning y_t on y_{t-1}.
C4_OneTermPerObservation ==
  (Returned /\ T >= 2) =>
    /\ Len(evalRec.ll) = T - 1
    /\ \A t \in 1..(T - 1) :
         Cardinality({i \in 1..Len(evalRec.ll) : evalRec.ll[i].t = t}) = 1
    /\ \A i \in 1..Len(evalRec.ll) :
         /\ evalRec.ll[i].t \in 1..(T - 1)
         /\ evalRec.ll[i].cur = endog[evalRec.ll[i].t + 1]
         /\ evalRec.ll[i].prev = endog[evalRec.ll[i].t]

C4_Witness ==
  /\ Returned
  /\ T = 3
  /\ Len(evalRec.ll) = 2
  /\ endog[1] # endog[2]

\* C5: a fit call that has been made is in Fitting, or has ended in Fitted or
\* Failed with the optimizer's convergence report as its result, and has
\* invoked the optimizer exactly once.
C5_FitEndsFittedOrFailed ==
  fitCount >= 1 =>
    /\ pc \in {"Fitting", "Fitted", "Failed"}
    /\ optCalls = 1
    /\ pc = "Fitted" => (ret.returned /\ ret.converged)
    /\ pc = "Failed" => (ret.returned /\ ~ret.converged)

\* C6: when fit is called with startParams unset, the initial point handed to
\* the optimizer has exactly K+1 entries, all equal to 1.0.
C6_DefaultStartAllOnes ==
  (OptimizerCalled /\ call.start_params = None) =>
    /\ Len(handed.start_params) = K + 1
    /\ handed.start_params = Ones(K + 1)

C6_Witness ==
  /\ pc = "Fitting"
  /\ call.start_params = None
  /\ K = 2
  /\ handed.start_params = <<1, 1, 1>>

\* C7: a fit call given startParams hands the optimizer negativeLogLikelihood
\* as objective, those startParams unchanged and the caller's caps, and what
\* fit returns is what the optimizer returned.
C7_ArgumentsPassedThrough ==
  /\ (FitArgsKept /\ call.start_params # None) =>
       /\ OptimizerCalled
       /\ handed.objective = "nloglikeobs"
       /\ handed.start_params = call.start_params.v
       /\ handed.maxiter = call.maxiter
       /\ handed.maxfun = call.maxfun
  /\ pc \in {"Fitted", "Failed"} => ret = optret

\* C8: negativeLogLikelihood is a pure function: the bound series and
\* regressors stay as bound at construction, the vector passed stays as passed,
\* an evaluation leaves ParameterNames alone, and the outcome recorded for a
\* vector is the one the data bound at construction gives it, whatever
\* evaluations and fit calls came before.
C8_Pure ==
  /\ [](pc # "NoModel" => endog = endog0 /\ exog = exog0)
  /\ [](Evaluated =>
          /\ evalRec.params = evalRec.arg
          /\ evalRec.raised = Likelihood(evalRec.arg, endog0, exog0).raised
          /\ evalRec.ll = Likelihood(evalRec.arg, endog0, exog0).ll)
  /\ [][evalRec' # evalRec => exog_names' = exog_names]_vars

C8_Witness ==
  /\ pc \in {"Fitted", "Failed"}
  /\ fitCount = 2
  /\ Returned
  /\ Len(evalRec.ll) >= 1
  /\ evalRec.arg # ret.params
  /\ endog[1] # endog[Len(endog)]

C10_ConvolutionTerms ==
  Evaluated =>
    \A i \in 1..Len(evalRec.passes) :
      LET ps == evalRec.passes[i]
          m == Min(ps.cur, ps.prev)
      IN (ps.cur >= 0 /\ ps.prev >= 0) =>
           /\ ps.cur = endog[ps.t + 1]
           /\ ps.prev = endog[ps.t]
           /\ Len(ps.prods) = m + 1
           /\ \A j \in 0..m :
                Cardinality({n \in 1..Len(ps.prods) : ps.prods[n].j = j}) = 1
           /\ \A n \in 1..Len(ps.prods) :
                /\ ps.prods[n].j \in 0..m
                /\ ps.prods[n].k = ps.cur - ps.prods[n].j
                /\ ps.prods[n].k >= 0
                /\ ps.prods[n].n = ps.prev
                /\ ps.prods[n].j <= ps.prods[n].n
                /\ ps.prods[n].mu = ps.t
           /\ ps.prev = 0 =>
                (Len(ps.prods) = 1 /\ ps.prods[1].j = 0 /\ ps.prods[1].k = ps.cur)

C10_Witness ==
  /\ Evaluated
  /\ \E i \in 1..Len(evalRec.passes) :
       /\ Len(evalRec.passes[i].prods) = 2
       /\ evalRec.passes[i].cur = 1
       /\ evalRec.passes[i].prev = 1
  /\ \E i \in 1..Len(evalRec.passes) :
       /\ evalRec.passes[i].prev = 0
       /\ evalRec.passes[i].cur = 1
       /\ Len(evalRec.passes[i].prods) = 1

====
